---- MODULE Spec2Model ----
(***************************************************************************)
(* Layer-rotation engine (src/src/RubiksCube.js) and the handlers that     *)
(* drive it (src/src/components/Cube.jsx).                                  *)
(*                                                                         *)
(* Angles are counted in quarter turns (1 = PI/2).  At rest every cubie     *)
(* rotation is a multiple of a quarter turn, so sines and cosines are in    *)
(* {-1,0,1} and every matrix is an integer matrix.  A pivot in mid-turn     *)
(* holds a fraction of a quarter turn, kept as numerator and denominator.   *)
(***************************************************************************)
EXTENDS Integers, Sequences, FiniteSets, TLC

\* ---------------------------------------------------------------- bounds
MaxCalls == 2          \* user events that take effect in one behaviour
MaxDuration == 2       \* longest animation, in clock units

\* ------------------------------------------------------- program constants
ScrambleMoves == 20
DefaultDuration == 2   \* duration = 300 ms, in clock units of 150 ms
DeadZone == 2
GridMin == -1
GridMax == 1

Grid == GridMin..GridMax
AxisNames == {"x", "y", "z"}
Directions == {1, -1}
Durations == 1..MaxDuration
FrameSteps == {1, 2}   \* gaps between two frame timestamps, in clock units
Seeds == {1, 2}        \* states of the random source when scramble starts

\* The nine layers.
Layers == {<<a, i>> : a \in AxisNames, i \in Grid}

\* The (axis, index) pairs the turn requests are tried with: a face layer, a middle
\* layer and a face layer on the three axes, and three pairs that select nothing.
TurnLayers == {<<"x", 1>>, <<"y", 0>>, <<"z", -1>>}
EmptyLayers == {<<"w", 0>>, <<"x", GridMax + 1>>, <<"y", GridMin - 1>>}

\* ------------------------------------------------------------ arithmetic
AxisIdx(axis) == CASE axis = "x" -> 1 [] axis = "y" -> 2 [] axis = "z" -> 3 [] OTHER -> 0

Abs(n) == IF n < 0 THEN -n ELSE n

\* The element of a one-element set; {f(x) : x \in {e}} computes e once for all its uses in f.
The(S) == CHOOSE x \in S : TRUE

\* Math.round on a value the model holds exactly: the grid coordinates are integers.
Round(n) == n

Mod4(q) == ((q % 4) + 4) % 4

\* Math.cos / Math.sin of q quarter turns.
Cos4(q) == CASE Mod4(q) = 0 -> 1 [] Mod4(q) = 2 -> -1 [] OTHER -> 0
Sin4(q) == CASE Mod4(q) = 1 -> 1 [] Mod4(q) = 3 -> -1 [] OTHER -> 0

\* Math.atan2(y, x) in quarter turns, for (y, x) on an axis; range (-2, 2].
Atan2Q(y, x) ==
    CASE y = 0 /\ x > 0 -> 0
      [] y > 0 /\ x = 0 -> 1
      [] y = 0 /\ x < 0 -> 2
      [] y < 0 /\ x = 0 -> -1
      [] OTHER -> 0

Identity3 == << <<1, 0, 0>>, <<0, 1, 0>>, <<0, 0, 1>> >>

MatVec(m, v) ==
    [i \in 1..3 |-> m[i][1] * v[1] + m[i][2] * v[2] + m[i][3] * v[3]]

MatMul(a, b) ==
    [i \in 1..3 |-> [j \in 1..3 |-> a[i][1] * b[1][j] + a[i][2] * b[2][j] + a[i][3] * b[3][j]]]

Dot3(u, v) == u[1] * v[1] + u[2] * v[2] + u[3] * v[3]

Cross3(u, v) ==
    << u[2] * v[3] - u[3] * v[2], u[3] * v[1] - u[1] * v[3], u[1] * v[2] - u[2] * v[1] >>

\* Matrix4.makeRotationFromEuler, order XYZ, for an Euler triple of quarter turns.
EulerToMatrix(e) ==
    LET a == Cos4(e[1])  b == Sin4(e[1])
        c == Cos4(e[2])  d == Sin4(e[2])
        ee == Cos4(e[3]) f == Sin4(e[3])
    IN << << c * ee,              -(c * f),             d        >>,
          << a * f + b * ee * d,  a * ee - b * f * d,   -(b * c) >>,
          << b * f - a * ee * d,  b * ee + a * f * d,   a * c    >> >>

\* The decomposition without its branch for the poles.
MatrixToEulerNoPole(m) ==
    << Atan2Q(-m[2][3], m[3][3]), m[1][3], Atan2Q(-m[1][2], m[1][1]) >>

\* Euler.setFromRotationMatrix, order XYZ: y = asin(m13); away from the poles
\* x = atan2(-m23, m33), z = atan2(-m12, m11); at the poles x = atan2(m32, m22), z = 0.
MatrixToEuler(m) ==
    IF Abs(m[1][3]) < 1
    THEN << Atan2Q(-m[2][3], m[3][3]), m[1][3], Atan2Q(-m[1][2], m[1][1]) >>
    ELSE << Atan2Q(m[3][2], m[2][2]), m[1][3], 0 >>

\* ------------------------------------------------------------------ state
VARIABLES
    cubies,        \* this.cubies: 1..27 -> [position, rotation, parent]; parent 0 is the cube itself
    isAnimating,   \* this.isAnimating
    pivots,        \* the pivot objects that are children of the cube
    raf,           \* callbacks waiting for the next animation frame
    isDragging,    \* isDraggingRef.current
    startIntersect,\* startIntersectRef.current
    controlsEnabled, \* controls.enabled
    log            \* the user events that took effect so far, oldest first

vars == << cubies, isAnimating, pivots, raf, isDragging, startIntersect, controlsEnabled, log >>

CubieIds == 1..27
Root == 0
NoIntersect == [object |-> 0, normal |-> <<0, 0, 0>>]

\* constructor: x outermost, then y, then z; rotation (0,0,0); child of the cube.
CubieIndex(x, y, z) == 9 * (x - GridMin) + 3 * (y - GridMin) + (z - GridMin) + 1

InitialCubies ==
    [c \in CubieIds |->
        [position |-> CHOOSE p \in Grid \X Grid \X Grid : CubieIndex(p[1], p[2], p[3]) = c,
         rotation |-> <<0, 0, 0>>,
         parent   |-> Root]]

\* The cube object together with the frame callbacks it has scheduled.
This == [cubies |-> cubies, isAnimating |-> isAnimating, pivots |-> pivots, raf |-> raf]

\* ----------------------------------------------------------------- engine
\* new THREE.Object3D(); pivot.rotation.set(0, 0, 0); this.add(pivot)
NewPivotId(o) == CHOOSE n \in 1..(Cardinality(o.pivots) + 1) : \A p \in o.pivots : p.id # n

NewPivot(o) == [id |-> NewPivotId(o), rotation |-> <<0, 0, 0>>, den |-> 1]

PivotById(o, id) == CHOOSE p \in o.pivots : p.id = id

\* The pivot's rotation in whole quarter turns (defined when the turn is complete).
PivotQuarters(p) == [i \in 1..3 |-> p.rotation[i] \div p.den]

PivotMatrix(p) == EulerToMatrix(PivotQuarters(p))

\* The transform is recomputed but the cubie stays with its old parent.
attachKeepsParent(c, m, newParent) ==
    [position |-> MatVec(m, c.position),
     rotation |-> MatrixToEuler(MatMul(m, EulerToMatrix(c.rotation))),
     parent   |-> c.parent]

\* Object3D.attach: the cubie keeps its world transform, m = inverse(new parent) * old parent;
\* the local matrix is decomposed again into position and Euler rotation.
attach(c, m, newParent) ==
    The({[position |-> MatVec(m, c.position),
          rotation |-> MatrixToEuler(local),
          parent   |-> newParent] :
            local \in {The({MatMul(m, r) : r \in {EulerToMatrix(c.rotation)}})}})

\* The filter with >= for ===.
InLayerAtLeast(c, axis, index) ==
    /\ AxisIdx(axis) # 0
    /\ Round(c.position[AxisIdx(axis)]) >= index

\* The layer filter of rotateLayer: Math.round(c.position[axis]) === index.
\* position[axis] of an unknown axis name is undefined, which rounds to NaN and equals nothing.
InLayer(c, axis, index) ==
    /\ AxisIdx(axis) # 0
    /\ Round(c.position[AxisIdx(axis)]) = index

activeCubiesOf(o, axis, index) == {c \in CubieIds : InLayer(o.cubies[c], axis, index)}

\* Rounding of finishRotation: positions to integers, rotations to quarter turns.
RoundCubie(c) ==
    [position |-> [i \in 1..3 |-> Round(c.position[i])],
     rotation |-> [i \in 1..3 |-> Round(c.rotation[i])],
     parent   |-> c.parent]

\* finishRotation without this.remove(pivot).
KeepPivot(ps, p) == ps

\* this.remove(pivot)
RemovePivot(ps, p) == ps \ {p}

\* finishRotation that walks over this.cubies instead of activeCubies.
finishRotationOfAll(o, pivotId, activeCubies, axis) ==
    LET p == PivotById(o, pivotId)
    IN The({[o EXCEPT
               !.cubies = [c \in CubieIds |-> RoundCubie(attach(o.cubies[c], m, Root))],
               !.pivots = RemovePivot(o.pivots, p),
               !.isAnimating = FALSE] :
                 m \in {PivotMatrix(p)}})

finishRotation(o, pivotId, activeCubies, axis) ==
    LET p == PivotById(o, pivotId)
    IN The({[o EXCEPT
               !.cubies = [c \in CubieIds |->
                             IF c \in activeCubies
                             THEN RoundCubie(attach(o.cubies[c], m, Root))
                             ELSE o.cubies[c]],
               !.pivots = RemovePivot(o.pivots, p),
               !.isAnimating = FALSE] :
                 m \in {PivotMatrix(p)}})

\* The target angle without the direction.
targetRotationOneWay(direction) == -1

\* targetRotation = (Math.PI / 2) * direction * -1, in quarter turns.
targetRotation(direction) == direction * (-1)

\* The pivot always turned about x.
SetAxisX(rotation, axis, value) == [rotation EXCEPT ![1] = value]

\* pivot.rotation[axis] = value
SetAxis(rotation, axis, value) == [rotation EXCEPT ![AxisIdx(axis)] = value]

\* rotateLayer without its first line.
NeverBusy(o) == FALSE

\* The early return of rotateLayer: if (this.isAnimating) return.
Busy(o) == o.isAnimating

\* rotateLayer without its second return.
AlwaysSelected(activeCubies) == FALSE

\* if (activeCubies.length === 0) return
NothingSelected(activeCubies) == activeCubies = {}

\* The call once it is past both returns, with the layer it selected.
turnLayer(o, activeCubies, axis, direction, animate, duration) ==
    LET pivot == NewPivot(o)
        attached == [c \in CubieIds |->
                       IF c \in activeCubies
                       THEN attach(o.cubies[c], Identity3, pivot.id)
                       ELSE o.cubies[c]]
    IN IF animate
       THEN [o EXCEPT
               !.cubies = attached,
               !.pivots = o.pivots \cup {pivot},
               !.isAnimating = TRUE,
               !.raf = Append(o.raf,
                         [pivot |-> pivot.id, activeCubies |-> activeCubies, axis |-> axis,
                          target |-> targetRotation(direction), duration |-> duration,
                          last |-> -2])]
       ELSE The({finishRotation(turned, pivot.id, activeCubies, axis) :
                   turned \in {[o EXCEPT
                      !.cubies = attached,
                      !.pivots = o.pivots \cup
                                   {[pivot EXCEPT !.rotation =
                                       SetAxis(pivot.rotation, axis, targetRotation(direction))]}]}})

rotateLayer(o, axis, index, direction, animate, duration) ==
    IF Busy(o) THEN o
    ELSE The({IF NothingSelected(activeCubies) THEN o
              ELSE turnLayer(o, activeCubies, axis, direction, animate, duration) :
                activeCubies \in {activeCubiesOf(o, axis, index)}})

\* ------------------------------------------------------- animation frames
Pow3(n) == n * n * n

RemoveAt(q, i) == [k \in 1..(Len(q) - 1) |-> IF k < i THEN q[k] ELSE q[k + 1]]

\* progress = Math.min(elapsed / duration, 1) reaches 1
ProgressDone(elapsed, duration) == elapsed >= duration

\* The ease of a progress that is not cut off at 1.
EaseNumUnclamped(elapsed, duration) == Pow3(duration) - Pow3(duration - elapsed)

\* ease = 1 - (1 - progress)^3 as a fraction over duration^3
EaseNum(elapsed, duration) ==
    IF ProgressDone(elapsed, duration)
    THEN Pow3(duration)
    ELSE Pow3(duration) - Pow3(duration - elapsed)

\* The step that forgets to ask for the next frame.
NoNextFrame(q, cb, elapsed) == q

\* requestAnimationFrame(animateStep) from inside animateStep
NextFrame(q, cb, elapsed) == Append(q, [cb EXCEPT !.last = elapsed])

\* animateStep(time) of the i-th waiting callback; elapsed = time - startTime.
animateStep(o, i, elapsed) ==
    LET cb == o.raf[i]
        p == PivotById(o, cb.pivot)
        turned == [p EXCEPT
                     !.rotation = SetAxis(p.rotation, cb.axis,
                                          cb.target * EaseNum(elapsed, cb.duration)),
                     !.den = Pow3(cb.duration)]
    IN The({IF ~ProgressDone(elapsed, cb.duration)
            THEN [o1 EXCEPT !.raf = NextFrame(o1.raf, cb, elapsed)]
            ELSE finishRotation(o1, cb.pivot, cb.activeCubies, cb.axis) :
              o1 \in {[o EXCEPT !.pivots = (o.pivots \ {p}) \cup {turned},
                                !.raf = RemoveAt(o.raf, i)]}})

\* ----------------------------------------------------------------- scramble
\* Math.random(): a congruential generator; a draw is (state / 101) in [0, 1).
NextRandom(x) == (37 * x + 11) % 101

\* list[Math.floor(Math.random() * list.length)]
Pick(list, x) == list[((x * Len(list)) \div 101) + 1]

\* The draws with indices that are not all layers of the cube.
scrambleDrawWideIndices(x) ==
    LET x1 == NextRandom(x)
        x2 == NextRandom(x1)
        x3 == NextRandom(x2)
    IN [axis |-> Pick(<<"x", "y", "z">>, x1),
        index |-> Pick(<<-2, 0, 2>>, x2),
        dir |-> Pick(<<1, -1>>, x3),
        next |-> x3]

\* The three draws of one iteration and the state of the random source after them.
scrambleDraw(x) ==
    LET x1 == NextRandom(x)
        x2 == NextRandom(x1)
        x3 == NextRandom(x2)
    IN [axis |-> Pick(<<"x", "y", "z">>, x1),
        index |-> Pick(<<-1, 0, 1>>, x2),
        dir |-> Pick(<<1, -1>>, x3),
        next |-> x3]

\* The call that leaves animate at its default.
scrambleAnimateDefault == TRUE

\* The animate argument of the calls of scramble.
scrambleAnimate == FALSE

RECURSIVE scrambleLoop(_, _, _)
scrambleLoop(o, i, x) ==
    IF i >= ScrambleMoves THEN o
    ELSE The({The({scrambleLoop(next, i + 1, d.next) :
                     next \in {rotateLayer(o, d.axis, d.index, d.dir,
                                           scrambleAnimate, DefaultDuration)}}) :
                d \in {scrambleDraw(x)}})

scramble(o, seed) ==
    IF ~o.isAnimating THEN scrambleLoop(o, 0, seed) ELSE o

\* ------------------------------------------------------------------ gesture
PickCubies == {CubieIndex(-1, -1, -1), CubieIndex(1, 1, 1), CubieIndex(0, 0, 1)}
UnitNormals == {<<1, 0, 0>>, <<-1, 0, 0>>, <<0, 1, 0>>, <<0, -1, 0>>, <<0, 0, 1>>, <<0, 0, -1>>}
\* (movementX, movementY) samples and the screen projections of the two candidate axes.
DragSamples == {<<1, -1>>, <<0, 1>>, <<3, 0>>, <<-3, 1>>, <<0, 3>>, <<3, -3>>, <<5, -5>>, <<1, -3>>}
Projections == { << <<2, 0>>, <<0, 2>> >>, << <<0, 0>>, <<0, -2>> >>, << <<-1, 2>>, <<2, 1>> >> }

\* normalMatrix of the picked cubie applied to the face normal of the box geometry.
WorldNormal(o, intersect) ==
    MatVec(EulerToMatrix(o.cubies[intersect.object].rotation), intersect.normal)

\* getIntersect: the nearest face hit by the ray is a face on the outside of the cube.
OutsideFace(o, intersect) ==
    Dot3(o.cubies[intersect.object].position, WorldNormal(o, intersect)) = GridMax

Intersects(o) ==
    {i \in {[object |-> c, normal |-> n] : c \in PickCubies, n \in UnitNormals} :
        OutsideFace(o, i)}

\* Pointer-down events: the button pressed and what the ray hits (NoIntersect for nothing).
MouseDownEvents(o) ==
    {<<0, i>> : i \in Intersects(o)} \cup {<<0, NoIntersect>>}
        \cup {<<2, i>> : i \in {j \in Intersects(o) : j.object = CubieIndex(1, 1, 1)}}

\* possibleAxes, by the dominant component of the world normal.
possibleAxes(worldNormal) ==
    IF 10 * Abs(worldNormal[1]) > 9 THEN << <<0, 1, 0>>, <<0, 0, 1>> >>
    ELSE IF 10 * Abs(worldNormal[2]) > 9 THEN << <<1, 0, 0>>, <<0, 0, 1>> >>
    ELSE << <<1, 0, 0>>, <<0, 1, 0>> >>

Dot2(u, v) == u[1] * v[1] + u[2] * v[2]

\* Math.abs(dragVec.dot(axisVec2D)) squared, as a fraction <<num, den>>;
\* Vector2.normalize leaves a zero vector zero, so its score is 0.
ScoreSq(drag, s) ==
    IF Dot2(s, s) = 0 \/ Dot2(drag, drag) = 0
    THEN <<0, 1>>
    ELSE << Dot2(drag, s) * Dot2(drag, s), Dot2(drag, drag) * Dot2(s, s) >>

FracGreater(a, b) == a[1] * b[2] > b[1] * a[2]

\* The forEach over possibleAxes: index of bestAxis (0 for null) after both candidates.
bestAxisIndex(drag, s1, s2) ==
    LET first == IF FracGreater(ScoreSq(drag, s1), <<0, 1>>) THEN 1 ELSE 0
        max1 == IF first = 1 THEN ScoreSq(drag, s1) ELSE <<0, 1>>
    IN IF FracGreater(ScoreSq(drag, s2), max1) THEN 2 ELSE first

maxDotSq(drag, s1, s2) ==
    LET b == bestAxisIndex(drag, s1, s2)
    IN IF b = 0 THEN <<0, 1>> ELSE ScoreSq(drag, IF b = 1 THEN s1 ELSE s2)

\* The gate at 0.1.
ConfidentAtLowerGate(drag, s1, s2) == FracGreater(maxDotSq(drag, s1, s2), <<1, 100>>)

\* The gate on the square of the score: maxDot * maxDot > 0.5.
ConfidentOnSquare(drag, s1, s2) == FracGreater(maxDotSq(drag, s1, s2), <<1, 2>>)

\* maxDot > 0.5
Confident(drag, s1, s2) == FracGreater(maxDotSq(drag, s1, s2), <<1, 4>>)

\* rotAxisName: 'x' unless the y or the z component of the vector dominates.
rotAxisNameOf(v) ==
    IF 10 * Abs(v[3]) > 9 THEN "z"
    ELSE IF 10 * Abs(v[2]) > 9 THEN "y"
    ELSE "x"

UnitVector(axis) == [i \in 1..3 |-> IF i = AxisIdx(axis) THEN 1 ELSE 0]

\* The turn about the movement axis itself.
rotationAxisVectorAlongMovement(movementAxis, worldNormal) == movementAxis

\* crossVectors(movementAxis, worldNormal).normalize(): a cross product of two
\* perpendicular unit vectors is a unit vector already.
rotationAxisVectorOf(movementAxis, worldNormal) == Cross3(movementAxis, worldNormal)

\* The Move computed by onMouseMove once the confidence gate is passed.
resolveMove(o, intersect, drag, s1, s2) ==
    LET worldNormal == WorldNormal(o, intersect)
        b == bestAxisIndex(drag, s1, s2)
        movementAxis == possibleAxes(worldNormal)[b]
        rotationAxisVector == rotationAxisVectorOf(movementAxis, worldNormal)
        rotAxisName == rotAxisNameOf(rotationAxisVector)
        layerCoord == Round(o.cubies[intersect.object].position[AxisIdx(rotAxisName)])
        projected == Dot2(drag, IF b = 1 THEN s1 ELSE s2)
        directionSign == IF projected > 0 THEN 1 ELSE -1
        cross == Cross3(worldNormal, movementAxis)
        rotDir == IF Dot3(cross, UnitVector(rotAxisName)) < 0
                  THEN directionSign * (-1) ELSE directionSign
    IN [axis |-> rotAxisName, index |-> layerCoord, direction |-> rotDir]

\* The gesture session: isDraggingRef, startIntersectRef and controls.enabled.
Gesture ==
    [isDragging |-> isDragging, startIntersect |-> startIntersect,
     controlsEnabled |-> controlsEnabled]

\* The dead-zone test that lets every sample through.
NeverInDeadZone(dx, dy) == FALSE

\* Math.abs(dx) < 2 && Math.abs(dy) < 2
InDeadZone(dx, dy) == Abs(dx) < DeadZone /\ Abs(dy) < DeadZone

\* The reset that leaves the session open.
resetStateKeepsDragging(g) == [g EXCEPT !.controlsEnabled = TRUE]

\* The reset that forgets the controls.
resetStateControlsOff(g) == [g EXCEPT !.isDragging = FALSE, !.startIntersect = NoIntersect]

\* "Reset state" after the move is requested.
resetState(g) ==
    [isDragging |-> FALSE, startIntersect |-> NoIntersect, controlsEnabled |-> TRUE]

\* A handler run that returned early: nothing changes and no Move is requested.
Ignored(o, g) == [cube |-> o, gesture |-> g, moves |-> << >>]

\* onMouseMove for one event: sample is (movementX, movementY), proj the screen
\* directions of the two candidate axes.  The result is the cube, the gesture
\* session and the Moves handed to rotateLayer.
mouseMove(o, g, sample, proj) ==
    LET dx == sample[1]
        dy == sample[2]
        s1 == proj[1]
        s2 == proj[2]
        drag == <<dx, -dy>> IN
    IF ~g.isDragging \/ g.startIntersect = NoIntersect THEN Ignored(o, g)
    ELSE IF o.isAnimating THEN Ignored(o, g)
    ELSE IF InDeadZone(dx, dy) THEN Ignored(o, g)
    ELSE IF ~Confident(drag, s1, s2) THEN Ignored(o, g)
    ELSE The({[cube |-> rotateLayer(o, move.axis, move.index, move.direction,
                                   TRUE, DefaultDuration),
               gesture |-> resetState(g),
               moves |-> << <<"drag", move.axis, move.index, move.direction>> >>] :
                 move \in {resolveMove(o, g.startIntersect, drag, s1, s2)}})

\* ------------------------------------------------------------------ actions
Init ==
    /\ cubies = InitialCubies
    /\ isAnimating = FALSE
    /\ pivots = {}
    /\ raf = << >>
    /\ isDragging = FALSE
    /\ startIntersect = NoIntersect
    /\ controlsEnabled = TRUE
    /\ log = << >>

\* User events that took effect, against the bound; a gesture in progress
\* keeps one in reserve for the move it may emit.
NCalls == Len(log) + (IF isDragging THEN 1 ELSE 0)

\* The cube after a handler has run.
Store(o) ==
    /\ cubies' = o.cubies
    /\ isAnimating' = o.isAnimating
    /\ pivots' = o.pivots
    /\ raf' = o.raf

\* A request is logged when it changed something.
Commit(result, entry) ==
    \E o \in {result} :
       /\ Store(o)
       /\ log' = IF o = This THEN log ELSE Append(log, entry)

GestureVars == << isDragging, startIntersect, controlsEnabled >>

\* A rotateLayer call returns at once while the cube is busy, whatever its arguments;
\* the actions below try the arguments only when the call gets past that return.

\* rotateLayer(axis, index, direction, false)
InstantTurn ==
    /\ NCalls < MaxCalls
    /\ IF Busy(This)
       THEN UNCHANGED << cubies, isAnimating, pivots, raf, log >>
       ELSE \E layer \in TurnLayers \cup EmptyLayers, direction \in Directions :
               Commit(rotateLayer(This, layer[1], layer[2], direction, FALSE, DefaultDuration),
                      <<"turn", layer[1], layer[2], direction>>)
    /\ UNCHANGED GestureVars

\* rotateLayer(axis, index, direction, true, duration); the request is also tried right
\* after a first pick, so that a turn can start while a gesture is open.
AnimatedTurn ==
    /\ NCalls < MaxCalls \/ log = << <<"pick">> >>
    /\ IF Busy(This)
       THEN UNCHANGED << cubies, isAnimating, pivots, raf, log >>
       ELSE \E layer \in TurnLayers \cup EmptyLayers, direction \in Directions,
               duration \in Durations :
               Commit(rotateLayer(This, layer[1], layer[2], direction, TRUE, duration),
                      <<"turn", layer[1], layer[2], direction>>)
    /\ UNCHANGED GestureVars

\* One animation frame: the waiting callback runs with a timestamp later than the last one.
AnimationFrame ==
    /\ raf # << >>
    /\ \E i \in DOMAIN raf, step \in FrameSteps :
          \E o \in {animateStep(This, i, raf[i].last + step)} : Store(o)
    /\ UNCHANGED << GestureVars, log >>

\* The scramble button.
Scramble ==
    /\ NCalls < MaxCalls
    /\ IF isAnimating
       THEN UNCHANGED << cubies, isAnimating, pivots, raf, log >>
       ELSE \E seed \in Seeds : Commit(scramble(This, seed), <<"scramble", seed>>)
    /\ UNCHANGED GestureVars

\* The handler without its isAnimating test.
onMouseDownWhileBusy ==
    /\ \E event \in MouseDownEvents(This) :
          IF event[1] # 0 \/ event[2] = NoIntersect
          THEN UNCHANGED << GestureVars, log >>
          ELSE /\ NCalls + 1 < MaxCalls \/ isAnimating
               /\ controlsEnabled' = FALSE
               /\ startIntersect' = event[2]
               /\ isDragging' = TRUE
               /\ log' = Append(log, <<"pick">>)
    /\ UNCHANGED << cubies, isAnimating, pivots, raf >>

onMouseDown ==
    /\ IF isAnimating
       THEN UNCHANGED << GestureVars, log >>
       ELSE \E event \in MouseDownEvents(This) :
               LET button == event[1]
                   intersect == event[2] IN
               IF button # 0 \/ intersect = NoIntersect
               THEN UNCHANGED << GestureVars, log >>
               ELSE /\ NCalls + 1 < MaxCalls
                    /\ controlsEnabled' = FALSE
                    /\ startIntersect' = intersect
                    /\ isDragging' = TRUE
                    /\ log' = Append(log, <<"pick">>)
    /\ UNCHANGED << cubies, isAnimating, pivots, raf >>

onMouseMove ==
    IF ~isDragging \/ startIntersect = NoIntersect \/ isAnimating
    THEN UNCHANGED vars
    ELSE \E sample \in DragSamples, proj \in Projections :
         \E r \in {mouseMove(This, Gesture, sample, proj)} :
            /\ Store(r.cube)
            /\ isDragging' = r.gesture.isDragging
            /\ startIntersect' = r.gesture.startIntersect
            /\ controlsEnabled' = r.gesture.controlsEnabled
            /\ log' = log \o r.moves

onMouseUp ==
    /\ isDragging' = FALSE
    /\ startIntersect' = NoIntersect
    /\ controlsEnabled' = TRUE
    /\ UNCHANGED << cubies, isAnimating, pivots, raf, log >>

Next ==
    \/ InstantTurn
    \/ AnimatedTurn
    \/ AnimationFrame
    \/ Scramble
    \/ onMouseDown
    \/ onMouseMove
    \/ onMouseUp

Spec == Init /\ [][Next]_vars

\* ---------------------------------------------------------------- claims
Idle == ~isAnimating
Rotating == isAnimating

InitialCube == [cubies |-> InitialCubies, isAnimating |-> FALSE, pivots |-> {}, raf |-> << >>]

Positions(o) == {o.cubies[c].position : c \in CubieIds}

\* Every grid position is in {-1,0,1}^3 and no two cubies share one.
ValidPermutation(o) ==
    /\ \A c \in CubieIds : o.cubies[c].position \in Grid \X Grid \X Grid
    /\ Cardinality(Positions(o)) = Cardinality(CubieIds)

\* C1: whenever the engine is idle, after any sequence of instant turns, completed
\* animated turns and scrambles, every cubie's grid position is in {-1,0,1}^3 and
\* the 27 positions are pairwise distinct.
C1_GridPermutation == Idle => ValidPermutation(This)

\* C1 witness: the idle cube after a 20-move scramble that moved cubies.
C1_Witness ==
    /\ Idle
    /\ \E seed \in Seeds : This = scramble(InitialCube, seed)
    /\ cubies # InitialCubies

\* C2: in every idle state each (axis, index) layer holds exactly 9 cubies, and the
\* three layers along one axis are pairwise disjoint and together hold all 27.
C2_LayerPartition ==
    Idle =>
      \A axis \in AxisNames :
         /\ \A index \in Grid : Cardinality(activeCubiesOf(This, axis, index)) = 9
         /\ \A i \in Grid, j \in Grid :
               i # j => activeCubiesOf(This, axis, i) \cap activeCubiesOf(This, axis, j) = {}
         /\ UNION {activeCubiesOf(This, axis, index) : index \in Grid} = CubieIds

\* C2 witness: an idle cube, two turns away from the solved one, whose x = 1 layer is
\* no longer the layer the constructor built.
C2_Witness ==
    /\ Idle
    /\ Len(log) = 2
    /\ activeCubiesOf(This, "x", 1) # activeCubiesOf(InitialCube, "x", 1)

\* rotateLayer(axis, index, direction, false) applied n times in a row.
RECURSIVE Turns(_, _, _, _, _)
Turns(o, axis, index, direction, n) ==
    IF n = 0 THEN o
    ELSE CHOOSE r \in {Turns(next, axis, index, direction, n - 1) :
                         next \in {rotateLayer(o, axis, index, direction, FALSE, DefaultDuration)}} :
            TRUE

\* The orientation of a cubie: the rotation matrix of its Euler angles.
Orientation(c) == EulerToMatrix(c.rotation)

\* Same grid position, orientation and owner for every cubie.
SameCubies(a, b) ==
    \A c \in CubieIds :
       /\ a.cubies[c].position = b.cubies[c].position
       /\ Orientation(a.cubies[c]) = Orientation(b.cubies[c])
       /\ a.cubies[c].parent = b.cubies[c].parent

\* C3: from any idle state, four instant quarter turns of one layer in one direction
\* bring every cubie back to its grid position and orientation.
C3_FourTurnsIdentity ==
    Idle =>
      \A layer \in Layers, direction \in Directions :
         \A after \in {Turns(This, layer[1], layer[2], direction, 4)} :
            SameCubies(after, This)

\* C3 witness: an idle cube two turns away from the solved one, on which one, two and
\* three turns of the x = 1 layer each leave a cubie displaced or turned, and the
\* fourth restores all of them.
C3_Witness ==
    /\ Idle
    /\ Len(log) = 2
    /\ cubies # InitialCubies
    /\ \A n \in 1..3 : \A after \in {Turns(This, "x", 1, 1, n)} : ~SameCubies(after, This)
    /\ \A after \in {Turns(This, "x", 1, 1, 4)} : SameCubies(after, This)

\* C4: from any idle state, an instant turn followed by the instant turn of the same
\* layer in the opposite direction leaves all 27 positions and orientations as they were.
C4_TurnThenInverse ==
    Idle =>
      \A layer \in Layers, direction \in Directions :
         \A after \in {Turns(Turns(This, layer[1], layer[2], direction, 1),
                              layer[1], layer[2], -direction, 1)} :
            SameCubies(after, This)

\* C4 witness: the solved cube reached again by a turn of x = 1 and its inverse.
C4_Witness ==
    /\ Idle
    /\ log = << <<"turn", "x", 1, 1>>, <<"turn", "x", 1, -1>> >>
    /\ cubies = InitialCubies

\* The arguments the dropped calls are tried with.
AnyLayers == Layers \cup EmptyLayers

\* C5: while a turn is in flight, a rotateLayer call with animate = true changes
\* nothing (no cubie, no pivot, not the waiting frame callback), and only one
\* animated turn is in flight.
C5_AnimatedDroppedWhileRotating ==
    Rotating =>
      /\ \A layer \in AnyLayers, direction \in Directions, duration \in Durations :
            rotateLayer(This, layer[1], layer[2], direction, TRUE, duration) = This
      /\ Len(raf) = 1
      /\ Cardinality(pivots) = 1

\* C5 witness: a turn in flight, part of the way, with a further call still allowed.
C5_Witness ==
    /\ Rotating
    /\ NCalls < MaxCalls
    /\ raf # << >>
    /\ raf[1].last > 0

\* C6 as stated: an instant call made while a turn is in flight runs instead of being dropped.
C6_InstantRunsWhileRotating ==
    Rotating =>
      \A layer \in Layers, direction \in Directions :
         rotateLayer(This, layer[1], layer[2], direction, FALSE, DefaultDuration) # This

\* C6 amended: the busy check applies to every call, so an instant call made while a
\* turn is in flight is dropped; an instant call made while idle runs to completion
\* within the call and leaves the busy flag unset, with no pivot and no frame callback.
C6_InstantChecksButNeverSetsBusy ==
    /\ Rotating =>
         \A layer \in Layers, direction \in Directions :
            rotateLayer(This, layer[1], layer[2], direction, FALSE, DefaultDuration) = This
    /\ Idle =>
         \A layer \in Layers, direction \in Directions :
            LET o == rotateLayer(This, layer[1], layer[2], direction, FALSE, DefaultDuration)
            IN /\ ~o.isAnimating
               /\ o.pivots = pivots
               /\ o.raf = raf
               /\ o.cubies # cubies

\* C6 witness: a turn in flight on a cube that instant turns have already changed.
C6_Witness ==
    /\ Rotating
    /\ Len(log) = 2
    /\ \E c \in CubieIds : cubies[c].parent = Root /\ cubies[c].position # InitialCubies[c].position

\* Axis and index pairs that select no cubie.
NoLayers ==
    {<<a, i>> : a \in {"w", "X", ""}, i \in Grid}
       \cup {<<a, i>> : a \in AxisNames, i \in {GridMin - 2, GridMin - 1, GridMax + 1, GridMax + 2}}

\* C7: a rotateLayer call whose axis and index select no cubie changes nothing,
\* animated or not: no cubie, no pivot, no frame callback, and the busy flag as it was.
C7_EmptySelectionNoOp ==
    \A layer \in NoLayers, direction \in Directions, animate \in BOOLEAN :
       /\ activeCubiesOf(This, layer[1], layer[2]) = {}
       /\ rotateLayer(This, layer[1], layer[2], direction, animate, DefaultDuration) = This

\* C7 witness: an idle cube, already turned, on which a further call is allowed.
C7_Witness ==
    /\ Idle
    /\ NCalls < MaxCalls
    /\ cubies # InitialCubies
    /\ pivots = {}

\* C8: at most one pivot exists in every reachable state.
C8_AtMostOnePivot == Cardinality(pivots) <= 1

\* C8 witness: the second turn of a behaviour in flight, with its pivot.
C8_Witness ==
    /\ Cardinality(pivots) = 1
    /\ Len(log) = 2
    /\ log[1][1] = "turn"
    /\ Rotating

\* The scheduler keeps delivering animation frames while a callback waits.
FairSpec == Spec /\ WF_vars(AnimationFrame)

\* The grid position a cubie of the turning layer has when the turn in flight completes.
TurnedPosition(cb, position) ==
    MatVec(EulerToMatrix(SetAxis(<<0, 0, 0>>, cb.axis, cb.target)), position)

\* One step taken while a turn is in flight: either the turn is still in flight, the
\* same callback waiting with a later timestamp and no cubie touched, or it has
\* completed, every cubie of its layer at its turned position under the cube again.
InFlightStep ==
    Rotating =>
      \/ /\ isAnimating'
         /\ Len(raf') = 1
         /\ raf'[1].last >= raf[1].last
         /\ [raf'[1] EXCEPT !.last = 0] = [raf[1] EXCEPT !.last = 0]
         /\ cubies' = cubies
      \/ /\ ~isAnimating'
         /\ raf' = << >>
         /\ pivots' = {}
         /\ \A c \in CubieIds :
               IF c \in raf[1].activeCubies
               THEN /\ cubies'[c].position = TurnedPosition(raf[1], cubies[c].position)
                    /\ cubies'[c].parent = Root
               ELSE cubies'[c] = cubies[c]

\* C9: with frames delivered fairly and timestamps advancing, a turn in flight with a
\* positive duration always reaches finishRotation and the engine becomes idle; until
\* then no step of any handler cancels or alters it.
C9_TurnRunsToCompletion ==
    /\ Rotating ~> Idle
    /\ [][InFlightStep]_vars

\* C9 witness: a turn of the longest duration in flight, after its first frames and
\* before its last.
C9_Witness ==
    /\ Rotating
    /\ raf # << >>
    /\ raf[1].duration = MaxDuration
    /\ raf[1].last >= 0
    /\ raf[1].last < raf[1].duration

\* A quarter turn of position p about the positive axis in the right-hand sense,
\* d times: counter-clockwise seen from the positive end of the axis.
RightHandTurn(axis, d, p) ==
    CASE axis = "x" -> << p[1], -d * p[3], d * p[2] >>
      [] axis = "y" -> << d * p[3], p[2], -d * p[1] >>
      [] axis = "z" -> << -d * p[2], d * p[1], p[3] >>

\* C10 as stated: an instant rotateLayer with direction d moves every cubie of the
\* layer by the right-hand quarter turn 90 degrees * d about the positive axis
\* (rotateLayer('y', 0, +1) takes the cubie at (0,0,1) to (1,0,0)).
C10_RightHandSense ==
    Idle =>
      \A layer \in Layers, d \in Directions :
         \A after \in {rotateLayer(This, layer[1], layer[2], d, FALSE, DefaultDuration)} :
            \A c \in activeCubiesOf(This, layer[1], layer[2]) :
               after.cubies[c].position = RightHandTurn(layer[1], d, cubies[c].position)

\* ------------------------------------------------------------- gestures
\* The Moves of the log, in order, with a mark at every successful pick.
DragEntries == {i \in DOMAIN log : log[i][1] = "drag"}
PickEntries == {i \in DOMAIN log : log[i][1] = "pick"}

\* Every Move of the log belongs to a pick before it, and two Moves never share one.
OneMovePerPick ==
    /\ \A d \in DragEntries : \E p \in PickEntries : p < d
    /\ \A d1, d2 \in DragEntries :
          d1 < d2 => \E p \in PickEntries : d1 < p /\ p < d2

\* A step that hands a Move to rotateLayer starts in a session and ends it.
EmissionEndsSession ==
    (Len(log') > Len(log) /\ log'[Len(log')][1] = "drag")
        => (isDragging /\ ~isDragging' /\ startIntersect' = NoIntersect)

\* C11: a gesture emits at most one Move: the sample that emits ends the session,
\* and with no session open every pointer-move sample is ignored.
C11_AtMostOneMovePerGesture ==
    /\ [](OneMovePerPick
          /\ (~isDragging =>
                \A sample \in DragSamples, proj \in Projections :
                   mouseMove(This, Gesture, sample, proj) = Ignored(This, Gesture)))
    /\ [][EmissionEndsSession]_vars

\* A gesture has emitted its Move and the turn it asked for is over, so only the
\* closed session keeps later samples from emitting.
C11_Witness ==
    /\ Len(log) >= 2
    /\ log[Len(log)][1] = "drag"
    /\ ~isDragging
    /\ Idle
    /\ cubies # InitialCubies

\* The cosine of the angle between the drag and a screen direction is at most 1/2
\* in absolute value (a direction that projects to a point scores 0).
ScoreAtMostHalf(drag, s) == 4 * Dot2(drag, s) * Dot2(drag, s) <= Dot2(drag, drag) * Dot2(s, s)

\* A step that closes the session without a Move leaves the cube alone.
QuietEndOfGesture ==
    (isDragging /\ ~isDragging' /\ log' = log)
        => (UNCHANGED << cubies, isAnimating, pivots, raf >>
            /\ startIntersect' = NoIntersect /\ controlsEnabled')

\* C12: a sample outside the dead-zone whose two scores are at most 0.5 emits no Move and
\* leaves the session as it was; a session closed by pointer-up emits no Move.
C12_UnconfidentSampleKeepsGesture ==
    /\ []((isDragging /\ Idle) =>
            \A sample \in DragSamples, proj \in Projections :
               LET drag == <<sample[1], -sample[2]>> IN
               (ScoreAtMostHalf(drag, proj[1]) /\ ScoreAtMostHalf(drag, proj[2]))
                  => mouseMove(This, Gesture, sample, proj) = Ignored(This, Gesture))
    /\ [][QuietEndOfGesture]_vars

\* A session is open on an idle cube, and there are samples outside the dead-zone
\* that score at most 0.5 and more than 0 on a candidate.
C12_Witness ==
    /\ isDragging
    /\ Idle
    /\ log = << <<"pick">> >>
    /\ \E sample \in DragSamples, proj \in Projections :
          LET drag == <<sample[1], -sample[2]>> IN
          /\ ~InDeadZone(sample[1], sample[2])
          /\ ScoreAtMostHalf(drag, proj[1]) /\ ScoreAtMostHalf(drag, proj[2])
          /\ Dot2(drag, proj[2]) # 0

\* The drag makes an angle of 45 degrees with a screen direction: cos^2 = 1/2.
AtFortyFive(drag, s) ==
    /\ Dot2(s, s) # 0
    /\ Dot2(drag, drag) # 0
    /\ 2 * Dot2(drag, s) * Dot2(drag, s) = Dot2(drag, drag) * Dot2(s, s)

\* The samples outside the dead-zone at 45 degrees to both candidate directions.
DiagonalEvents ==
    {e \in DragSamples \X Projections :
        LET drag == <<e[1][1], -e[1][2]>> IN
        /\ ~InDeadZone(e[1][1], e[1][2])
        /\ AtFortyFive(drag, e[2][1])
        /\ AtFortyFive(drag, e[2][2])}

\* C13 as stated: a drag at 45 degrees to both candidate screen directions emits no Move.
C13_NoMoveAtFortyFive ==
    (isDragging /\ Idle) =>
        \A e \in DiagonalEvents : mouseMove(This, Gesture, e[1], e[2]).moves = << >>

\* C13, amended: both scores are cos 45 = 0.707 > 0.5, so in an open session on an idle
\* engine such a drag emits one Move and ends the session, whatever its magnitude.
C13_MoveAtFortyFive ==
    (isDragging /\ Idle) =>
        \A e \in DiagonalEvents :
           \E r \in {mouseMove(This, Gesture, e[1], e[2])} :
              /\ Len(r.moves) = 1
              /\ r.moves[1][1] = "drag"
              /\ ~r.gesture.isDragging
              /\ r.cube.isAnimating

\* A session is open on an idle cube; the diagonal samples come in several magnitudes
\* and against both an upright and a tilted pair of screen directions.
C13_Witness ==
    /\ isDragging
    /\ Idle
    /\ startIntersect # NoIntersect
    /\ Cardinality({e[1] : e \in DiagonalEvents}) >= 3
    /\ Cardinality({e[2] : e \in DiagonalEvents}) >= 2

\* The confident events of an open session: samples outside the dead-zone that pass the gate.
ConfidentEvents ==
    {e \in DragSamples \X Projections :
        /\ ~InDeadZone(e[1][1], e[1][2])
        /\ Confident(<<e[1][1], -e[1][2]>>, e[2][1], e[2][2])}

\* The winning movement axis of an event, for the face that was touched.
MovementAxis(e) ==
    possibleAxes(WorldNormal(This, startIntersect))
        [bestAxisIndex(<<e[1][1], -e[1][2]>>, e[2][1], e[2][2])]

\* The cubie that was touched.
Touched == cubies[startIntersect.object]

\* C14: the emitted Move turns about the basis axis perpendicular to the movement axis and
\* to the world normal of the touched face, on the layer of the touched cubie along that
\* axis; a front face (0,0,1) dragged along x turns about y on the cubie's y layer.
C14_RotationAxisAndLayer ==
    (isDragging /\ Idle) =>
        \A e \in ConfidentEvents :
           \E r \in {mouseMove(This, Gesture, e[1], e[2])},
              n \in {WorldNormal(This, startIntersect)},
              m \in {MovementAxis(e)} :
              /\ n \in UnitNormals
              /\ Dot3(m, n) = 0
              /\ Len(r.moves) = 1
              /\ r.moves[1][2] \in AxisNames
              /\ Dot3(UnitVector(r.moves[1][2]), m) = 0
              /\ Dot3(UnitVector(r.moves[1][2]), n) = 0
              /\ r.moves[1][3] = Touched.position[AxisIdx(r.moves[1][2])]
              /\ (n = <<0, 0, 1>> /\ m = <<1, 0, 0>>) =>
                    (r.moves[1][2] = "y" /\ r.moves[1][3] = Touched.position[2])

\* The front face of a middle-layer cubie is touched and a confident drag picks x.
C14_Witness ==
    /\ isDragging
    /\ Idle
    /\ WorldNormal(This, startIntersect) = <<0, 0, 1>>
    /\ Touched.position[2] = 0
    /\ \E e \in ConfidentEvents : MovementAxis(e) = <<1, 0, 0>>

\* C15: in every state the orbit controls are disabled exactly when a gesture session is
\* open: the pick that opens it suspends them, the Move or the pointer-up that closes it
\* resumes them.
C15_ControlsOffIffGesture ==
    /\ [](controlsEnabled <=> ~isDragging)
    /\ [][(isDragging' # isDragging) => (controlsEnabled' # controlsEnabled)]_vars

\* The controls are back on after a gesture that emitted its Move.
C15_Witness ==
    /\ controlsEnabled
    /\ ~isDragging
    /\ PickEntries # {}
    /\ DragEntries # {}

\* ------------------------------------------------------------- scramble
\* The cubes met by the loop of scramble: t holds the cube before the loop and after
\* each of the first i iterations, x is the state of the random source.
RECURSIVE scrambleTrace(_, _, _)
scrambleTrace(t, i, x) ==
    IF i >= ScrambleMoves THEN t
    ELSE The({The({scrambleTrace(longer, i + 1, d.next) :
                     longer \in {Append(t, rotateLayer(t[Len(t)], d.axis, d.index, d.dir,
                                                       scrambleAnimate, DefaultDuration))}}) :
                d \in {scrambleDraw(x)}})

\* The cubies that differ between two cubes.
Moved(a, b) == {c \in CubieIds : a.cubies[c] # b.cubies[c]}

\* No iteration of the trace is dropped or animated: each one moves cubies of one layer
\* and leaves the cube idle, without pivot and without a frame to come.
AllMovesApplied(t) ==
    /\ Len(t) = ScrambleMoves + 1
    /\ \A k \in 1..ScrambleMoves :
          /\ Moved(t[k], t[k + 1]) # {}
          /\ \E layer \in Layers :
                Moved(t[k], t[k + 1]) \subseteq activeCubiesOf(t[k], layer[1], layer[2])
          /\ ~t[k + 1].isAnimating
          /\ t[k + 1].pivots = {}
          /\ t[k + 1].raf = << >>

\* C16: a scramble started on an idle engine applies its 20 moves one after the other,
\* each through the instant path and none dropped, and returns with the engine idle
\* and no pivot.
C16_ScrambleAppliesAllMoves ==
    [][\A seed \in Seeds :
          (log' = Append(log, <<"scramble", seed>>)) =>
             \E t \in {scrambleTrace(<<This>>, 0, seed)} :
                /\ Idle
                /\ AllMovesApplied(t)
                /\ cubies' = t[Len(t)].cubies
                /\ Idle'
                /\ pivots' = {}
                /\ raf' = << >>]_vars

\* A scramble has run on a cube that was already turned.
C16_Witness ==
    /\ Len(log) >= 2
    /\ log[Len(log)][1] = "scramble"
    /\ log[1][1] = "turn"
    /\ Idle
    /\ pivots = {}

\* ------------------------------------------------------- sense of a gesture
Sub3(u, v) == <<u[1] - v[1], u[2] - v[2], u[3] - v[3]>>

\* Twice the centre of a face of a cubie, in the frame of the cube.
FaceCentre2(c, normal) ==
    LET n == MatVec(EulerToMatrix(c.rotation), normal)
    IN <<2 * c.position[1] + n[1], 2 * c.position[2] + n[2], 2 * c.position[3] + n[3]>>

\* The sense of the drag along the screen direction of the winning candidate.
DragSense(e) ==
    LET drag == <<e[1][1], -e[1][2]>>
        b == bestAxisIndex(drag, e[2][1], e[2][2])
    IN IF Dot2(drag, e[2][b]) > 0 THEN 1 ELSE -1

\* How far the touched face travels along the movement axis when the Move of event e
\* is executed by rotateLayer, counted in the sense of the drag.
FaceTravel(e) ==
    LET move == mouseMove(This, Gesture, e[1], e[2]).moves[1]
        after == rotateLayer(This, move[2], move[3], move[4], FALSE, DefaultDuration)
        from == FaceCentre2(Touched, startIntersect.normal)
        to == FaceCentre2(after.cubies[startIntersect.object], startIntersect.normal)
    IN Dot3(Sub3(to, from), MovementAxis(e)) * DragSense(e)

\* The same drag on two opposite faces asks for opposite directions.
OppositeFacesOppositeDirections ==
    \A i1, i2 \in Intersects(This), e \in ConfidentEvents :
       (WorldNormal(This, i1) = [k \in 1..3 |-> -WorldNormal(This, i2)[k]])
          => resolveMove(This, i1, <<e[1][1], -e[1][2]>>, e[2][1], e[2][2]).direction
               = -resolveMove(This, i2, <<e[1][1], -e[1][2]>>, e[2][1], e[2][2]).direction

\* C17: for every touched face, movement axis and drag sense, the emitted Move, executed by
\* rotateLayer, carries the touched face along the movement axis in the sense of the drag;
\* the same drag on opposite faces emits opposite directions.
C17_FaceFollowsDrag ==
    /\ (isDragging /\ Idle) => \A e \in ConfidentEvents : FaceTravel(e) > 0
    /\ Idle => OppositeFacesOppositeDirections

\* ------------------------------------------------------------- ownership
\* The cubies owned by a parent.
OwnedBy(parent) == {c \in CubieIds : cubies[c].parent = parent}

\* While a turn is in flight one pivot owns the nine cubies of the layer being turned,
\* which are the ones its frame callback holds, and the root owns the other 18.
PivotOwnsLayer ==
    \E p \in pivots :
       /\ pivots = {p}
       /\ p.id # Root
       /\ Cardinality(OwnedBy(p.id)) = 9
       /\ Cardinality(OwnedBy(Root)) = 18
       /\ Len(raf) = 1
       /\ raf[1].pivot = p.id
       /\ raf[1].activeCubies = OwnedBy(p.id)
       /\ \E index \in Grid : OwnedBy(p.id) = activeCubiesOf(This, raf[1].axis, index)

\* C18: idle, there is no pivot and the root owns all 27 cubies; rotating, the single pivot
\* owns exactly the 9 cubies of the layer and the root the other 18; the step that ends the
\* turn hands the 9 back to the root, removes the pivot and leaves the engine idle.
C18_Ownership ==
    /\ [](/\ Idle => (pivots = {} /\ OwnedBy(Root) = CubieIds)
          /\ Rotating => PivotOwnsLayer)
    /\ [][(Rotating /\ Idle') =>
             (pivots' = {} /\ \A c \in CubieIds : cubies'[c].parent = Root)]_vars

\* A turn is in flight on a cube that a scramble has mixed.
C18_Witness ==
    /\ Rotating
    /\ PivotOwnsLayer
    /\ Len(log) >= 2
    /\ log[1][1] = "scramble"

\* ------------------------------------------------------------- animation
\* The callbacks that have run at least once; last is then the elapsed time of that tick.
Ticked == {i \in DOMAIN raf : raf[i].last > -2}

\* C19: on every tick progress = elapsed / duration lies in [0,1], so the angle of the pivot
\* about the axis of the turn lies between 0 and the target angle, both included.
C19_AngleBetweenZeroAndTarget ==
    \A i \in Ticked :
       LET cb == raf[i]
           p == PivotById(This, cb.pivot)
           angle == p.rotation[AxisIdx(cb.axis)]
       IN /\ cb.last >= 0
          /\ angle * cb.target >= 0
          /\ Abs(angle) <= Abs(cb.target) * p.den

\* ------------------------------------------------------------- dead-zone
\* The samples with |dx| < 2 and |dy| < 2.
JitterSamples == {sample \in DragSamples : Abs(sample[1]) < 2 /\ Abs(sample[2]) < 2}

\* C20: a pointer-move sample with |dx| < 2 and |dy| < 2 is ignored: no Move, the session
\* stays open on its pick with the controls suspended, and the cube is untouched.
C20_DeadZoneSampleIgnored ==
    (isDragging /\ Idle) =>
        \A sample \in JitterSamples, proj \in Projections :
           \E r \in {mouseMove(This, Gesture, sample, proj)} :
              /\ r.moves = << >>
              /\ r.gesture.isDragging
              /\ r.gesture.startIntersect = startIntersect
              /\ r.gesture.controlsEnabled = controlsEnabled
              /\ r.cube = This

\* A session is open on an idle cube with the controls suspended, and a jitter sample
\* points along a candidate direction, so that only the dead-zone stops it.
C20_Witness ==
    /\ isDragging
    /\ Idle
    /\ ~controlsEnabled
    /\ startIntersect # NoIntersect
    /\ \E sample \in JitterSamples, proj \in Projections :
          /\ sample # <<0, 0>>
          /\ Confident(<<sample[1], -sample[2]>>, proj[1], proj[2])

\* ------------------------------------------------- gestures and the busy lock
\* While a turn is in flight no step opens a session, changes its pick or suspends the controls.
NoPickWhileRotating ==
    Rotating =>
       /\ isDragging' => isDragging
       /\ ~controlsEnabled' => ~controlsEnabled
       /\ startIntersect' \in {startIntersect, NoIntersect}

\* A step that emits a Move starts on an idle engine and leaves it turning the layer of that
\* Move, in its direction: rotateLayer did not return early.
EmittedMoveIsExecuted ==
    (Len(log') > Len(log) /\ log'[Len(log')][1] = "drag") =>
       \E move \in {log'[Len(log')]} :
          /\ Idle
          /\ Rotating'
          /\ Len(raf') = 1
          /\ raf'[1].axis = move[2]
          /\ raf'[1].target = targetRotation(move[4])
          /\ raf'[1].activeCubies = activeCubiesOf(This, move[2], move[3])
          /\ Cardinality(raf'[1].activeCubies) = 9
          /\ Cardinality(pivots') = 1

\* C21: the resolver opens a gesture and looks at samples only while the engine is idle: a
\* pointer-down during a turn opens no session and leaves the controls alone, a pointer-move
\* during a turn is ignored and the session stays open; so every emitted Move is executed
\* by rotateLayer, never dropped by the busy lock.
C21_ResolverWorksOnlyWhenIdle ==
    /\ []((Rotating /\ isDragging) =>
            \A sample \in DragSamples, proj \in Projections :
               mouseMove(This, Gesture, sample, proj) = Ignored(This, Gesture))
    /\ [][NoPickWhileRotating /\ EmittedMoveIsExecuted]_vars

\* A turn asked for from outside is in flight, part of the way, while a session is open.
C21_Witness ==
    /\ Rotating
    /\ isDragging
    /\ startIntersect # NoIntersect
    /\ ~controlsEnabled
    /\ raf # << >>
    /\ raf[1].last > -2

\* ------------------------------------------------- scramble and the busy lock
\* The iterations of a trace of scramble that changed the cube.
AppliedMoves(t) == {k \in 1..(Len(t) - 1) : t[k + 1] # t[k]}

\* C22: scramble is all or nothing: called while a turn is in flight it applies none of its
\* moves and leaves the cubies, the pivot and the waiting frame as they are; a scramble that
\* changes the cube has applied all 20 of its moves, never a part of them.
C22_ScrambleAllOrNothing ==
    /\ [](Rotating =>
            \A seed \in Seeds :
               /\ scramble(This, seed) = This
               /\ AppliedMoves(scrambleTrace(<<This>>, 0, seed)) = {})
    /\ [][\A seed \in Seeds :
            (log' = Append(log, <<"scramble", seed>>)) =>
               \E t \in {scrambleTrace(<<This>>, 0, seed)} :
                  /\ Cardinality(AppliedMoves(t)) = ScrambleMoves
                  /\ cubies' = t[Len(t)].cubies]_vars

\* A turn is in flight, part of the way, and the scramble button can still be pressed.
C22_Witness ==
    /\ Rotating
    /\ NCalls < MaxCalls
    /\ Cardinality(pivots) = 1
    /\ raf # << >>
    /\ raf[1].last >= 0
    /\ ~isDragging

\* ------------------------------------------------- animated and instant turns
\* The frames of the turn in flight, each coming step after the one before, up to the end.
RECURSIVE completeTurn(_, _)
completeTurn(o, step) ==
    IF o.raf = << >> THEN o
    ELSE The({completeTurn(next, step) :
                next \in {animateStep(o, 1, o.raf[1].last + step)}})

\* The cube as it was when the turn in flight was asked for: the cubies keep their
\* position and rotation when they are attached to the new pivot.
TurnStart ==
    [cubies |-> [c \in CubieIds |-> [cubies[c] EXCEPT !.parent = Root]],
     isAnimating |-> FALSE, pivots |-> {}, raf |-> << >>]

\* The step that ends a turn leaves the cube where the instant turn of the same move
\* would have put it from the state the turn started in.
CompletionMatchesInstant ==
    (Rotating /\ Idle') =>
       \E cb \in {raf[1]} :
       \E index \in {cubies[c].position[AxisIdx(cb.axis)] : c \in cb.activeCubies},
          direction \in {d \in Directions : targetRotation(d) = cb.target} :
          [cubies |-> cubies', isAnimating |-> isAnimating', pivots |-> pivots', raf |-> raf']
             = rotateLayer(TurnStart, cb.axis, index, direction, FALSE, DefaultDuration)

\* C23: from every idle state and for every move, the animated turn run to its end leaves
\* the same cube as the instant turn: the same position and orientation for the 27 cubies,
\* the engine idle and no pivot.
C23_AnimatedEqualsInstant ==
    /\ [](Idle =>
            \A layer \in Layers, direction \in Directions :
               \E instant \in {rotateLayer(This, layer[1], layer[2], direction,
                                           FALSE, DefaultDuration)} :
                  /\ ~instant.isAnimating
                  /\ instant.pivots = {}
                  /\ \A duration \in Durations, step \in FrameSteps :
                        completeTurn(rotateLayer(This, layer[1], layer[2], direction,
                                                 TRUE, duration), step) = instant)
    /\ [][CompletionMatchesInstant]_vars

\* An animated turn asked for on a mixed cube has just ended.
C23_Witness ==
    /\ Idle
    /\ Len(log) = 2
    /\ log[1][1] = "scramble"
    /\ log[2][1] = "turn"
    /\ pivots = {}
    /\ raf = << >>

\* ------------------------------------------------------------ frame of a turn
\* What a turn of the layer (axis, index) may change between two cubes: nothing outside
\* the layer, and inside it nothing of the coordinate along the axis, so that the same
\* nine cubies form the layer afterwards.
OnlyLayerChanged(before, after, axis, index) ==
    \E layer \in {activeCubiesOf(before, axis, index)} :
       /\ Cardinality(layer) = 9
       /\ \A c \in CubieIds \ layer : after.cubies[c] = before.cubies[c]
       /\ \A c \in layer :
             after.cubies[c].position[AxisIdx(axis)] = before.cubies[c].position[AxisIdx(axis)]
       /\ activeCubiesOf(after, axis, index) = layer
       /\ \E c \in layer : after.cubies[c] # before.cubies[c]

\* The step that ends an animated turn, seen from the state the turn started in.
CompletionChangesOnlyLayer ==
    (Rotating /\ Idle') =>
       \E cb \in {raf[1]} :
       \E index \in {cubies[c].position[AxisIdx(cb.axis)] : c \in cb.activeCubies} :
          OnlyLayerChanged(TurnStart, [TurnStart EXCEPT !.cubies = cubies'], cb.axis, index)

\* C24: a turn of layer (axis, index) changes only that layer: the 18 cubies outside it keep
\* position and orientation, the 9 inside keep their coordinate along the axis, and the layer
\* is made of the same cubies before and after.
C24_TurnChangesOnlyItsLayer ==
    /\ [](Idle =>
            \A layer \in Layers, direction \in Directions :
               OnlyLayerChanged(This,
                                rotateLayer(This, layer[1], layer[2], direction,
                                            FALSE, DefaultDuration),
                                layer[1], layer[2]))
    /\ [][CompletionChangesOnlyLayer]_vars

\* A turn has been made on a mixed cube.
C24_Witness ==
    /\ Idle
    /\ Len(log) = 2
    /\ log[1][1] = "scramble"
    /\ log[2][1] \in {"turn", "drag"}
    /\ \E c \in CubieIds : cubies[c].rotation # <<0, 0, 0>>

====
